---- MODULE Spec2Model ----
(***************************************************************************)
(* Model of main.py, the Modrinth automated version updater.               *)
(*                                                                         *)
(* A version label is a tuple of one-character strings, so that            *)
(* version_key can split it on '.' and '-' and coerce digit runs exactly   *)
(* as the script does.  A key is a tuple of tokens; a token is the record  *)
(* [num, n, s]: num tells an int token (value n) from a str token (text s).*)
(***************************************************************************)
EXTENDS Integers, Sequences, FiniteSets, TLC

VARIABLES
    pc,                 \* position of main(): start, auth, load, check, loop,
                        \* release, patch, done, exit0, exit1, crash;
                        \* or the position of a function harness (key, merge)
    exit_code,          \* -1 while running, else the process exit status
    argv,               \* sys.argv
    MODRINTH_TOKEN,     \* os.environ.get("MODRINTH_TOKEN"): "None", "" or a value
    config_file,        \* main.json on disk: [state, data]
    target_mc_version,  \* main.py:78
    config,             \* main.py:82, ordered (slug, labels) pairs
    pi,                 \* index of the project the for loop of line 92 is at
    all_mod_versions,   \* main.py:95
    versions_to_patch,  \* main.py:99
    vi,                 \* index of the release the for loop of line 106 is at
    request,            \* PATCH requests in flight (at most one)
    total_updated,      \* main.py:91
    fetched,            \* slugs a GET was issued for
    failed,             \* slugs whose GET failed
    patched,            \* ids of the releases of the current project a
                        \* PATCH was issued for
    succeeded,          \* number of PATCH requests answered with success
    fa, fb,             \* inputs of the function harnesses
    r1, r2              \* results of the function harnesses

vars == <<pc, exit_code, argv, MODRINTH_TOKEN, config_file, target_mc_version,
          config, pi, all_mod_versions, versions_to_patch, vi, request,
          total_updated, fetched, failed, patched, succeeded, fa, fb, r1, r2>>

(***************************************************************************)
(* Bounds                                                                  *)
(***************************************************************************)
MaxProjects == 2
MaxEntries == 3
MaxLabelLen == 3
MaxMergeLen == 3

(***************************************************************************)
(* Characters and labels                                                   *)
(***************************************************************************)
Digits == {"0", "1", "2", "3", "4", "5", "6", "7", "8", "9"}
Separators == {".", "-"}

\* ord(c) for the characters the model uses
Ord(c) ==
    CASE c = "-" -> 45
      [] c = "." -> 46
      [] c = "0" -> 48
      [] c = "1" -> 49
      [] c = "2" -> 50
      [] c = "3" -> 51
      [] c = "4" -> 52
      [] c = "5" -> 53
      [] c = "6" -> 54
      [] c = "7" -> 55
      [] c = "8" -> 56
      [] c = "9" -> 57
      [] c = "a" -> 97
      [] c = "b" -> 98
      [] OTHER -> 122

Range(s) == {s[i] : i \in DOMAIN s}

SeqsUpTo(S, n) == UNION {[1..k -> S] : k \in 0..n}

\* re.split(r'[.-]', v): the tokens between separators, empty ones included
RECURSIVE SplitAcc(_, _, _, _)
SplitAcc(v, i, cur, acc) ==
    IF i > Len(v) THEN Append(acc, cur)
    ELSE IF v[i] \in Separators THEN SplitAcc(v, i + 1, <<>>, Append(acc, cur))
    ELSE SplitAcc(v, i + 1, Append(cur, v[i]), acc)

Split(v) == SplitAcc(v, 1, <<>>, <<>>)

\* str.isdigit(): non-empty and every character a digit
IsDigit(tok) == tok # <<>> /\ \A i \in DOMAIN tok : tok[i] \in Digits

\* int(tok) of a digit string
RECURSIVE IntOf(_)
IntOf(tok) ==
    IF tok = <<>> THEN 0
    ELSE 10 * IntOf(SubSeq(tok, 1, Len(tok) - 1)) + (Ord(tok[Len(tok)]) - 48)

IntToken(tok) == [num |-> TRUE, n |-> IntOf(tok), s |-> <<>>]
StrToken(tok) == [num |-> FALSE, n |-> 0, s |-> tok]

\* version_key without the coercion of digit runs
CoerceNone(tok) == StrToken(tok)

Coerce(tok) == IF IsDigit(tok) THEN IntToken(tok) ELSE StrToken(tok)

version_key(v) == [i \in DOMAIN Split(v) |-> Coerce(Split(v)[i])]

(***************************************************************************)
(* Python's ordering of keys                                               *)
(***************************************************************************)
\* str < str: by code point, a proper prefix first
RECURSIVE StrLess(_, _)
StrLess(s, t) ==
    IF t = <<>> THEN FALSE
    ELSE IF s = <<>> THEN TRUE
    ELSE IF s[1] # t[1] THEN Ord(s[1]) < Ord(t[1])
    ELSE StrLess(Tail(s), Tail(t))

\* list < list: the first index where the elements differ decides, by the
\* elements' own <, which raises TypeError between int and str; without such
\* an index the shorter list is the smaller.  "lt", "eq", "gt" or "TypeError".
RECURSIVE ListCompare(_, _)
ListCompare(a, b) ==
    IF a = <<>> /\ b = <<>> THEN "eq"
    ELSE IF a = <<>> THEN "lt"
    ELSE IF b = <<>> THEN "gt"
    ELSE IF a[1] = b[1] THEN ListCompare(Tail(a), Tail(b))
    ELSE IF a[1].num # b[1].num THEN "TypeError"
    ELSE IF a[1].num THEN (IF a[1].n < b[1].n THEN "lt" ELSE "gt")
    ELSE IF StrLess(a[1].s, b[1].s) THEN "lt" ELSE "gt"

KeyCompare(x, y) == ListCompare(version_key(x), version_key(y))

(***************************************************************************)
(* The merge-and-sort step, main.py:116-119                                *)
(***************************************************************************)
\* The orders in which a set can be iterated.  The iteration order of a set
\* of str depends on the hash seed and on the insertion history, so
\* list(set(...)) is any arrangement of the elements.
SetOrders(S) == {p \in [1..Cardinality(S) -> S] : Range(p) = S}

\* line 117 without the target appended
DedupedWithoutTarget(current, target) == SetOrders(Range(current))

\* list(set(current_game_versions + [target_mc_version])), line 117
Deduped(current, target) == SetOrders(Range(current \o <<target>>))

\* Place x behind every element that is not greater than it: what a stable
\* sort does with the next element of its input.
RECURSIVE InsertByKey(_, _)
InsertByKey(sorted, x) ==
    IF sorted = <<>> THEN <<x>>
    ELSE IF KeyCompare(x, sorted[1]) = "lt" THEN <<x>> \o sorted
    ELSE <<sorted[1]>> \o InsertByKey(Tail(sorted), x)

RECURSIVE StableSort(_)
StableSort(seq) ==
    IF seq = <<>> THEN <<>>
    ELSE InsertByKey(StableSort(SubSeq(seq, 1, Len(seq) - 1)), seq[Len(seq)])

\* Two keys that Python cannot order
Incomparable(seq) ==
    \E i, j \in DOMAIN seq : KeyCompare(seq[i], seq[j]) = "TypeError"

\* The same pair of operators for a sort without key=, on the label's text
RECURSIVE InsertByText(_, _)
InsertByText(sorted, x) ==
    IF sorted = <<>> THEN <<x>>
    ELSE IF StrLess(x, sorted[1]) THEN <<x>> \o sorted
    ELSE <<sorted[1]>> \o InsertByText(Tail(sorted), x)

RECURSIVE TextSort(_)
TextSort(seq) ==
    IF seq = <<>> THEN <<>>
    ELSE InsertByText(TextSort(SubSeq(seq, 1, Len(seq) - 1)), seq[Len(seq)])

SortedByText(seq) == [err |-> FALSE, val |-> TextSort(seq)]

\* sorted(seq, key=version_key), line 116: a stable sort by <.  A comparison
\* sort cannot place two elements without a chain of comparisons between
\* them, and a key that orders against both of two incomparable keys lies on
\* the same side of both, so the sort raises TypeError exactly when two of
\* the keys are incomparable.
SortedByKey(seq) ==
    IF Incomparable(seq) THEN [err |-> TRUE, val |-> <<>>]
    ELSE [err |-> FALSE, val |-> StableSort(seq)]

\* The outcomes of lines 116-119: new_game_versions, or a TypeError
NewGameVersions(current, target) ==
    {SortedByKey(p) : p \in Deduped(current, target)}

(***************************************************************************)
(* Inputs of a run                                                         *)
(***************************************************************************)
V_1_9   == <<"1", ".", "9">>
V_1_11  == <<"1", ".", "1", "1">>
V_1_9_a == <<"1", ".", "9", "-", "a">>
V_1_9_1 == <<"1", ".", "9", ".", "1">>
V_1d9   == <<"1", "-", "9">>

\* The labels the catalog holds and the targets of a run
GameVersions == {V_1_9, V_1_11, V_1_9_a, V_1_9_1}
Targets == {V_1_11, V_1_9_1, V_1d9}

\* version_number of a release
ReleaseLabels == {"1.0", "1.1"}

Slug(i) == <<"mod", i>>

\* The label list main.json gives for the i-th project: one label for the
\* odd ones, both for the even ones
ConfiguredLabels(i) == IF i % 2 = 1 THEN <<"1.0">> ELSE <<"1.0", "1.1">>

\* main.json as parsed: a dict, so the slugs are distinct; from no project
\* to MaxProjects of them
Configs ==
    {[i \in 1..n |-> [slug |-> Slug(i), labels |-> ConfiguredLabels(i)]] :
        n \in 0..MaxProjects}

ConfigFiles ==
    {[state |-> "missing", data |-> <<>>], [state |-> "invalid", data |-> <<>>]}
    \cup {[state |-> "ok", data |-> c] : c \in Configs}

\* The releases a catalog can hold that list k game versions
Releases(k) ==
    [version_number : ReleaseLabels, game_versions : [1..k -> GameVersions]]

\* The release lists of w entries, a release and each game version it lists
\* being one entry
RECURSIVE Catalogs(_)
Catalogs(w) ==
    IF w = 0 THEN {<<>>}
    ELSE UNION {{<<first>> \o rest : first \in Releases(k), rest \in Catalogs(w - k - 1)} :
                   k \in 0..(w - 1)}

\* The bodies of a 2xx answer to GET /project/{slug}/version: the releases
\* of a catalog of at most MaxEntries entries, each with its id
Responses ==
    {[i \in DOMAIN c |-> [id |-> i,
                          version_number |-> c[i].version_number,
                          game_versions |-> c[i].game_versions]] :
        c \in UNION {Catalogs(w) : w \in 0..MaxEntries}}

(***************************************************************************)
(* main()                                                                  *)
(***************************************************************************)
\* line 73: len(sys.argv) < 2
ArgMissing == Len(argv) < 2

\* get_auth_headers without its check
TokenNeverMissing == FALSE

\* line 23: not MODRINTH_TOKEN
TokenMissing == MODRINTH_TOKEN \in {"None", ""}

\* lines 34-42: load_config exits unless the file is there and parses
ConfigUnreadable == config_file.state # "ok"

\* lines 99-101 without the filter
SelectAll(all, labels) == all

\* lines 99-101
Select(all, labels) == SelectSeq(all, LAMBDA v : v.version_number \in Range(labels))

\* line 112 never skipping
NeverSupports(current, target) == FALSE

\* line 112
AlreadySupports(current, target) == target \in Range(current)

\* lines 123-125 counting every attempt
CountedAlways(total, success) == total + 1

\* lines 123-125
Counted(total, success) == IF success THEN total + 1 ELSE total

Exit(code) ==
    /\ pc' = IF code = 0 THEN "exit0" ELSE "exit1"
    /\ exit_code' = code

\* lines 73-79
CheckArgs ==
    /\ pc = "start"
    /\ IF ArgMissing
       THEN Exit(1) /\ UNCHANGED target_mc_version
       ELSE /\ target_mc_version' = argv[2]
            /\ pc' = "auth"
            /\ UNCHANGED exit_code
    /\ UNCHANGED <<argv, MODRINTH_TOKEN, config_file, config, pi, all_mod_versions,
                   versions_to_patch, vi, request, total_updated, fetched,
                   failed, patched, succeeded, fa, fb, r1, r2>>

\* lines 21-30 and 81
GetAuthHeaders ==
    /\ pc = "auth"
    /\ IF TokenMissing
       THEN Exit(1)
       ELSE pc' = "load" /\ UNCHANGED exit_code
    /\ UNCHANGED <<argv, MODRINTH_TOKEN, config_file, target_mc_version, config,
                   pi, all_mod_versions, versions_to_patch, vi, request,
                   total_updated, fetched, failed, patched, succeeded,
                   fa, fb, r1, r2>>

\* lines 32-42 and 82
LoadConfig ==
    /\ pc = "load"
    /\ IF ConfigUnreadable
       THEN Exit(1) /\ UNCHANGED config
       ELSE /\ config' = config_file.data
            /\ pc' = "check"
            /\ UNCHANGED exit_code
    /\ UNCHANGED <<argv, MODRINTH_TOKEN, config_file, target_mc_version, pi,
                   all_mod_versions, versions_to_patch, vi, request,
                   total_updated, fetched, failed, patched, succeeded,
                   fa, fb, r1, r2>>

\* lines 84-91
EmptyConfigCheck ==
    /\ pc = "check"
    /\ IF config = <<>>
       THEN Exit(0) /\ UNCHANGED <<pi, total_updated>>
       ELSE /\ total_updated' = 0
            /\ pi' = 1
            /\ pc' = "loop"
            /\ UNCHANGED exit_code
    /\ UNCHANGED <<argv, MODRINTH_TOKEN, config_file, target_mc_version, config,
                   all_mod_versions, versions_to_patch, vi, request, fetched,
                   failed, patched, succeeded, fa, fb, r1, r2>>

\* lines 46-55: the answers get_project_versions can return
GetProjectVersions ==
    {[ok |-> FALSE, body |-> <<>>]} \cup {[ok |-> TRUE, body |-> r] : r \in Responses}

\* lines 92-104: one project is fetched and its releases are selected
FetchProject ==
    /\ pc = "loop"
    /\ pi <= Len(config)
    /\ \E answer \in GetProjectVersions :
          /\ fetched' = fetched \cup {config[pi].slug}
          /\ failed' = IF answer.ok THEN failed ELSE failed \cup {config[pi].slug}
          /\ IF answer.body = <<>>
             THEN /\ pi' = pi + 1
                  /\ UNCHANGED <<pc, all_mod_versions, versions_to_patch, vi>>
             ELSE /\ all_mod_versions' = answer.body
                  /\ versions_to_patch' = Select(answer.body, config[pi].labels)
                  /\ vi' = 1
                  /\ pc' = "release"
                  /\ UNCHANGED pi
    /\ UNCHANGED <<exit_code, argv, MODRINTH_TOKEN, config_file, target_mc_version,
                   config, request, total_updated, patched, succeeded,
                   fa, fb, r1, r2>>

\* lines 106-121 and the request of line 62
ProcessRelease ==
    /\ pc = "release"
    /\ vi <= Len(versions_to_patch)
    /\ LET version_data == versions_to_patch[vi]
           current_game_versions == version_data.game_versions
       IN IF AlreadySupports(current_game_versions, target_mc_version)
          THEN /\ vi' = vi + 1
               /\ UNCHANGED <<pc, exit_code, request, patched>>
          ELSE \E new \in NewGameVersions(current_game_versions, target_mc_version) :
                  IF new.err
                  THEN /\ pc' = "crash"
                       /\ exit_code' = 1
                       /\ UNCHANGED <<vi, request, patched>>
                  ELSE /\ request' = <<[version_id |-> version_data.id,
                                        game_versions |-> new.val]>>
                       /\ patched' = patched \cup {version_data.id}
                       /\ pc' = "patch"
                       /\ UNCHANGED <<vi, exit_code>>
    /\ UNCHANGED <<argv, MODRINTH_TOKEN, config_file, target_mc_version, config,
                   pi, all_mod_versions, versions_to_patch, total_updated,
                   fetched, failed, succeeded, fa, fb, r1, r2>>

\* lines 57-67 and 123-127: the answer to the PATCH, and the count
PatchProjectVersion ==
    /\ pc = "patch"
    /\ \E success \in BOOLEAN :
          /\ total_updated' = Counted(total_updated, success)
          /\ succeeded' = IF success THEN succeeded + 1 ELSE succeeded
    /\ request' = <<>>
    /\ vi' = vi + 1
    /\ pc' = "release"
    /\ UNCHANGED <<exit_code, argv, MODRINTH_TOKEN, config_file, target_mc_version,
                   config, pi, all_mod_versions, versions_to_patch, fetched,
                   failed, patched, fa, fb, r1, r2>>

\* line 128: the releases of the project are exhausted; the lists of this
\* iteration are dead from here on (line 95 and 99 reassign them)
EndOfReleases ==
    /\ pc = "release"
    /\ vi > Len(versions_to_patch)
    /\ pi' = pi + 1
    /\ all_mod_versions' = <<>>
    /\ versions_to_patch' = <<>>
    /\ vi' = 0
    /\ patched' = {}
    /\ pc' = "loop"
    /\ UNCHANGED <<exit_code, argv, MODRINTH_TOKEN, config_file, target_mc_version,
                   config, request, total_updated, fetched, failed, succeeded,
                   fa, fb, r1, r2>>

\* line 130
Finish ==
    /\ pc = "loop"
    /\ pi > Len(config)
    /\ pc' = "done"
    /\ exit_code' = 0
    /\ UNCHANGED <<argv, MODRINTH_TOKEN, config_file, target_mc_version, config,
                   pi, all_mod_versions, versions_to_patch, vi, request,
                   total_updated, fetched, failed, patched, succeeded,
                   fa, fb, r1, r2>>

Init ==
    /\ pc = "start"
    /\ exit_code = -1
    /\ argv \in {<<"main.py">>} \cup {<<"main.py", t>> : t \in Targets}
    /\ MODRINTH_TOKEN \in {"None", "", "secret"}
    /\ config_file \in ConfigFiles
    /\ target_mc_version = <<>>
    /\ config = <<>>
    /\ pi = 0
    /\ all_mod_versions = <<>>
    /\ versions_to_patch = <<>>
    /\ vi = 0
    /\ request = <<>>
    /\ total_updated = 0
    /\ fetched = {}
    /\ failed = {}
    /\ patched = {}
    /\ succeeded = 0
    /\ fa = <<>>
    /\ fb = <<>>
    /\ r1 = <<>>
    /\ r2 = <<>>

Next ==
    \/ CheckArgs
    \/ GetAuthHeaders
    \/ LoadConfig
    \/ EmptyConfigCheck
    \/ FetchProject
    \/ ProcessRelease
    \/ PatchProjectVersion
    \/ EndOfReleases
    \/ Finish

Spec == Init /\ [][Next]_vars

TypeOK ==
    /\ exit_code \in {-1, 0, 1}
    /\ Len(request) <= 1
    /\ total_updated \in 0..(MaxProjects * MaxEntries)

(***************************************************************************)
(* version_key on its own: two labels are keyed and compared               *)
(***************************************************************************)
KeyAlphabet == {"1", "9", ".", "-"}
KeyLabels == SeqsUpTo(KeyAlphabet, MaxLabelLen)

InitKey ==
    /\ pc = "key"
    /\ exit_code = -1
    /\ argv = <<"main.py">>
    /\ MODRINTH_TOKEN = "None"
    /\ config_file = [state |-> "missing", data |-> <<>>]
    /\ target_mc_version = <<>>
    /\ config = <<>>
    /\ pi = 0
    /\ all_mod_versions = <<>>
    /\ versions_to_patch = <<>>
    /\ vi = 0
    /\ request = <<>>
    /\ total_updated = 0
    /\ fetched = {}
    /\ failed = {}
    /\ patched = {}
    /\ succeeded = 0
    /\ fa \in KeyLabels
    /\ fb \in KeyLabels
    /\ r1 = <<>>
    /\ r2 = <<>>

\* version_key(fa) < version_key(fb), as sorted() evaluates it
CompareKeys ==
    /\ pc = "key"
    /\ r1' = <<KeyCompare(fa, fb)>>
    /\ pc' = "keyed"
    /\ UNCHANGED <<exit_code, argv, MODRINTH_TOKEN, config_file, target_mc_version,
                   config, pi, all_mod_versions, versions_to_patch, vi, request,
                   total_updated, fetched, failed, patched, succeeded, fa, fb, r2>>

NextKey == CompareKeys

SpecKey == InitKey /\ [][NextKey]_vars

(***************************************************************************)
(* The merge-and-sort step on its own: applied to a list, then to its      *)
(* own result                                                              *)
(***************************************************************************)
MergeLabels == {V_1_9, V_1d9, V_1_11, V_1_9_a}

InitMerge ==
    /\ pc = "merge"
    /\ exit_code = -1
    /\ argv = <<"main.py">>
    /\ MODRINTH_TOKEN = "None"
    /\ config_file = [state |-> "missing", data |-> <<>>]
    /\ target_mc_version = <<>>
    /\ config = <<>>
    /\ pi = 0
    /\ all_mod_versions = <<>>
    /\ versions_to_patch = <<>>
    /\ vi = 0
    /\ request = <<>>
    /\ total_updated = 0
    /\ fetched = {}
    /\ failed = {}
    /\ patched = {}
    /\ succeeded = 0
    /\ fa \in SeqsUpTo(MergeLabels, MaxMergeLen)
    /\ fb \in MergeLabels
    /\ r1 = <<>>
    /\ r2 = <<>>

MergeOnce ==
    /\ pc = "merge"
    /\ \E new \in NewGameVersions(fa, fb) :
          /\ r1' = <<new>>
          /\ pc' = IF new.err THEN "raised" ELSE "merged"
    /\ UNCHANGED <<exit_code, argv, MODRINTH_TOKEN, config_file, target_mc_version,
                   config, pi, all_mod_versions, versions_to_patch, vi, request,
                   total_updated, fetched, failed, patched, succeeded, fa, fb, r2>>

MergeAgain ==
    /\ pc = "merged"
    /\ \E new \in NewGameVersions(r1[1].val, fb) :
          /\ r2' = <<new>>
          /\ pc' = "merged2"
    /\ UNCHANGED <<exit_code, argv, MODRINTH_TOKEN, config_file, target_mc_version,
                   config, pi, all_mod_versions, versions_to_patch, vi, request,
                   total_updated, fetched, failed, patched, succeeded, fa, fb, r1>>

NextMerge ==
    \/ MergeOnce
    \/ MergeAgain

SpecMerge == InitMerge /\ [][NextMerge]_vars

(***************************************************************************)
(* Properties                                                              *)
(***************************************************************************)
\* The release a PATCH in flight is for, and the list about to be sent
Prior == versions_to_patch[vi].game_versions
Sent == request[1].game_versions

Count(seq, x) == Cardinality({i \in DOMAIN seq : seq[i] = x})

\* C1: every PATCH request carries a list that holds every label of the
\* release's prior list, holds the target exactly once and holds no label
\* twice.
C1_PatchIsMerge ==
    pc = "patch" =>
        /\ request[1].version_id = versions_to_patch[vi].id
        /\ Range(Prior) \subseteq Range(Sent)
        /\ Count(Sent, target_mc_version) = 1
        /\ \A i, j \in DOMAIN Sent : Sent[i] = Sent[j] => i = j

\* A PATCH in flight for a release that had a version already
C1_Witness ==
    /\ pc = "patch"
    /\ Prior # <<>>
    /\ Len(Sent) = Len(Prior) + 1

\* C2: every PATCH request carries a list in ascending order of version_key:
\* the key of each label is less than or equal to the key of the next one,
\* also when labels are not dotted digit strings.
C2_PatchIsOrdered ==
    pc = "patch" =>
        \A i \in 1..(Len(Sent) - 1) :
            ListCompare(version_key(Sent[i]), version_key(Sent[i + 1])) \in {"lt", "eq"}

\* A PATCH in flight whose list holds a label with a text token
C2_Witness ==
    /\ pc = "patch"
    /\ Sent = <<V_1_9_a, V_1_11>>

\* C3: a release whose version list holds the target gets no PATCH and adds
\* nothing to the count: no PATCH of the project is for such a release, the
\* step that meets such a release sends nothing and counts nothing, and the
\* count moves only on the answer to a PATCH.
C3_SkipIssuesNoPatch ==
    /\ [](\A k \in patched :
             target_mc_version \notin Range(all_mod_versions[k].game_versions))
    /\ [][(/\ pc = "release"
           /\ vi <= Len(versions_to_patch)
           /\ target_mc_version \in Range(versions_to_patch[vi].game_versions))
          => (/\ request' = <<>>
              /\ patched' = patched
              /\ total_updated' = total_updated
              /\ succeeded' = succeeded
              /\ vi' = vi + 1)]_vars
    /\ [][total_updated' # total_updated => pc = "patch"]_vars

\* A release holding the target has just been passed over
C3_Witness ==
    /\ pc = "release"
    /\ vi > 1
    /\ target_mc_version \in Range(versions_to_patch[vi - 1].game_versions)
    /\ versions_to_patch[vi - 1].id \notin patched

\* C4: the releases gone through for a project are exactly the fetched ones
\* whose version_number is among the project's configured labels, in the
\* catalog's order, and no PATCH is for a release with another label.
C4_SelectionByLabel ==
    pc \in {"release", "patch"} =>
        LET labels == Range(config[pi].labels)
            chosen == {k \in DOMAIN all_mod_versions :
                          all_mod_versions[k].version_number \in labels}
        IN /\ {versions_to_patch[j].id : j \in DOMAIN versions_to_patch} = chosen
           /\ \A j \in DOMAIN versions_to_patch :
                 versions_to_patch[j] = all_mod_versions[versions_to_patch[j].id]
           /\ \A i, j \in DOMAIN versions_to_patch :
                 i < j => versions_to_patch[i].id < versions_to_patch[j].id
           /\ patched \subseteq chosen

\* A PATCH in flight while another release of the project, which lacks the
\* target too, was left out for its label
C4_Witness ==
    /\ pc = "patch"
    /\ Len(versions_to_patch) < Len(all_mod_versions)
    /\ \E k \in DOMAIN all_mod_versions :
          /\ all_mod_versions[k].version_number \notin Range(config[pi].labels)
          /\ target_mc_version \notin Range(all_mod_versions[k].game_versions)

\* C5: when the fetch of a project has failed, no PATCH is issued for that
\* project, and the run ends with every project fetched and processed and
\* with the count of the successful updates reported.
C5_FailureIsolation ==
    /\ pc = "patch" => config[pi].slug \notin failed
    /\ (failed # {} /\ exit_code # -1) =>
          /\ pc = "done"
          /\ \A j \in DOMAIN config : config[j].slug \in fetched
          /\ total_updated = succeeded

\* C6: once the argument, the credential and the configuration have passed
\* their checks, the process ends with exit code 0.
C6_ExitZero ==
    (/\ exit_code # -1
     /\ Len(argv) >= 2
     /\ MODRINTH_TOKEN \notin {"None", ""}
     /\ config_file.state = "ok") => exit_code = 0

\* C7: with the argument missing, the credential missing or the configuration
\* file missing or unparsable, the run never leaves the startup checks, no GET
\* and no PATCH is ever issued, and the process ends with exit code 1.
C7_FatalStartup ==
    (\/ Len(argv) < 2
     \/ MODRINTH_TOKEN \in {"None", ""}
     \/ config_file.state \in {"missing", "invalid"}) =>
        /\ pc \in {"start", "auth", "load", "exit1"}
        /\ fetched = {}
        /\ patched = {}
        /\ request = <<>>
        /\ succeeded = 0
        /\ exit_code \in {-1, 1}
        /\ pc = "exit1" <=> exit_code = 1

\* The run has ended on the credential check, the argument being there
C7_Witness ==
    /\ pc = "exit1"
    /\ exit_code = 1
    /\ Len(argv) >= 2
    /\ MODRINTH_TOKEN = "None"

\* C8: the total equals the number of PATCH requests that succeeded, all
\* along and so at completion; the answer to a PATCH, good or bad, adds one
\* or nothing and leads on to the next release; a project is left only when
\* each selected release lacking the target has had its PATCH; and the run
\* completes only with every project fetched.
C8_CountIsSuccesses ==
    /\ [](total_updated = succeeded)
    /\ [](pc = "done" => \A j \in DOMAIN config : config[j].slug \in fetched)
    /\ [][pc = "patch" =>
            /\ pc' = "release"
            /\ vi' = vi + 1
            /\ pi' = pi
            /\ total_updated' \in {total_updated, total_updated + 1}]_vars
    /\ [][(pc = "release" /\ pc' = "loop") =>
            \A k \in DOMAIN all_mod_versions :
               (/\ all_mod_versions[k].version_number \in Range(config[pi].labels)
                /\ target_mc_version \notin Range(all_mod_versions[k].game_versions))
               => k \in patched]_vars

\* Both releases of a project have had their PATCH and exactly one succeeded
C8_Witness ==
    /\ pc = "release"
    /\ patched = {1, 2}
    /\ vi = 3
    /\ total_updated = 1

\* The integers a label of digit runs stands for, read character by character
RECURSIVE NumbersOf(_, _, _)
NumbersOf(v, cur, acc) ==
    IF v = <<>> THEN Append(acc, cur)
    ELSE IF v[1] \in {".", "-"} THEN NumbersOf(Tail(v), 0, Append(acc, cur))
    ELSE NumbersOf(Tail(v), 10 * cur + (Ord(v[1]) - 48), acc)

\* A label made only of non-empty digit runs separated by '.' or '-'
DigitLabel(v) ==
    /\ v # <<>>
    /\ v[1] \in Digits
    /\ v[Len(v)] \in Digits
    /\ \A i \in DOMAIN v : v[i] \in Digits \cup {".", "-"}
    /\ \A i \in 1..(Len(v) - 1) : ~(v[i] \in {".", "-"} /\ v[i + 1] \in {".", "-"})

\* Lexicographic order of integer sequences
LexLess(a, b) ==
    \E k \in 1..(Len(b)) :
        /\ \A i \in 1..(k - 1) : i <= Len(a) /\ a[i] = b[i]
        /\ \/ k = Len(a) + 1
           \/ k <= Len(a) /\ a[k] < b[k]

\* C9: for two labels made only of digit runs separated by '.' or '-', the
\* comparison of their keys never fails and is the lexicographic comparison
\* of their integer sequences.
C9_NumericOrder ==
    (pc = "keyed" /\ DigitLabel(fa) /\ DigitLabel(fb)) =>
        LET a == NumbersOf(fa, 0, <<>>)
            b == NumbersOf(fb, 0, <<>>)
        IN /\ r1[1] # "TypeError"
           /\ r1[1] = "lt" <=> LexLess(a, b)
           /\ r1[1] = "gt" <=> LexLess(b, a)
           /\ r1[1] = "eq" <=> a = b

\* 9 has been found to order before 11
C9_Witness ==
    /\ pc = "keyed"
    /\ fa = <<"9">>
    /\ fb = <<"1", "1">>
    /\ r1 = <<"lt">>

\* C10: the merge-and-sort step applied to its own result, with the same
\* target, gives the list it gave the first time.
C10_MergeIdempotent ==
    pc = "merged2" => r2 = r1

====
